---- MODULE Spec2Model ----
(***************************************************************************)
(* Model of the graphic-design MCP servers:                                *)
(*   src/mcp-graphic-design.py   the hand-rolled JSON-RPC stdio server     *)
(*   src/mcp_graphic_design.py   the FastMCP tool server                   *)
(*                                                                         *)
(* Python strings that the code inspects character by character (URLs and  *)
(* content types) are sequences of tokens; every token stands for the      *)
(* substring it spells, and no token is a prefix or suffix of another.     *)
(* Message texts are kept as sequences of their parts; the non-ASCII       *)
(* letters and emoji of the source texts are written in ASCII.             *)
(***************************************************************************)
EXTENDS Integers, Sequences, FiniteSets, TLC

VARIABLES pc, prog, tool, input, out, ret, log

vars == <<pc, prog, tool, input, out, ret, log>>

(***************************************************************************)
(* Bounds                                                                  *)
(***************************************************************************)
MaxUrlLen == 3
\* the number of parts of a Google sharing link
MaxGoogleParts == 2

(***************************************************************************)
(* Python values                                                           *)
(***************************************************************************)
None == [t |-> "None"]
PyStr(s) == [t |-> "str", v |-> s]
PyText(s) == [t |-> "text", s |-> s]
PyNum(n) == [t |-> "num", n |-> n]
PyList == [t |-> "list"]
PyDict(d) == [t |-> "dict", d |-> d]

IsDict(v) == v.t = "dict"
IsText(v) == v.t = "text"

\* bool(v): None, 0, "" and the empty list are false, everything else true
Truthy(v) ==
    CASE v.t = "None" -> FALSE
      [] v.t = "num" -> v.n # 0
      [] v.t = "text" -> v.s # <<>>
      [] v.t = "str" -> v.v # ""
      [] v.t = "list" -> FALSE
      [] OTHER -> TRUE

\* str(v) as it appears inside an f-string
Repr(v) ==
    CASE v.t = "None" -> "None"
      [] v.t = "str" -> v.v
      [] v.t = "num" -> ToString(v.n)
      [] v.t = "list" -> "[]"
      [] OTHER -> "{...}"

\* mutant: a missing key gives None whatever the default is
DictGet_NoDefault(d, key, default) == IF key \in DOMAIN d THEN d[key] ELSE None

\* d.get(key, default) on a dict modelled as a record
DictGet(d, key, default) == IF key \in DOMAIN d THEN d[key] ELSE default

(***************************************************************************)
(* String operations on token sequences                                    *)
(***************************************************************************)
SP == " "
AT == "@"
Whitespace == {SP}

MinOf(S) == CHOOSE i \in S : \A j \in S : i <= j
MaxOf(S) == CHOOSE i \in S : \A j \in S : i >= j

\* s.lstrip(chars)
LStrip(s, chars) ==
    LET keep == {i \in 1..Len(s) : s[i] \notin chars}
    IN IF keep = {} THEN <<>> ELSE SubSeq(s, MinOf(keep), Len(s))

\* s.rstrip(chars)
RStrip(s, chars) ==
    LET keep == {i \in 1..Len(s) : s[i] \notin chars}
    IN IF keep = {} THEN <<>> ELSE SubSeq(s, 1, MaxOf(keep))

\* s.strip()
Strip(s) == RStrip(LStrip(s, Whitespace), Whitespace)

\* s.startswith(p) / s.endswith(p) for a one-token p
StartsWith(s, p) == Len(s) > 0 /\ s[1] = p
EndsWith(s, p) == Len(s) > 0 /\ s[Len(s)] = p

LowerTok(c) ==
    CASE c = ".PDF" -> ".pdf"
      [] c = "PDF" -> "pdf"
      [] c = "IMAGE/" -> "image/"
      [] c = "APPLICATION/" -> "application/"
      [] OTHER -> c

\* s.lower()
Lower(s) == [i \in 1..Len(s) |-> LowerTok(s[i])]

\* url.startswith(('http://', 'https://'))
HasHttpScheme(s) == StartsWith(s, "http://") \/ StartsWith(s, "https://")

(***************************************************************************)
(* base64.b64encode(content).decode()                                      *)
(***************************************************************************)
B64Pad == 64

B64Group(g) ==
    LET n == Len(g)
        b1 == g[1]
        b2 == IF n >= 2 THEN g[2] ELSE 0
        b3 == IF n >= 3 THEN g[3] ELSE 0
    IN << b1 \div 4,
          (b1 % 4) * 16 + (b2 \div 16),
          IF n >= 2 THEN (b2 % 16) * 4 + (b3 \div 64) ELSE B64Pad,
          IF n >= 3 THEN b3 % 64 ELSE B64Pad >>

RECURSIVE B64Encode(_)
B64Encode(bytes) ==
    IF bytes = <<>> THEN <<>>
    ELSE IF Len(bytes) <= 3 THEN B64Group(bytes)
    ELSE B64Group(SubSeq(bytes, 1, 3)) \o B64Encode(SubSeq(bytes, 4, Len(bytes)))

(***************************************************************************)
(* The environment of one invocation: what the HTTP GET, the credential    *)
(* lookup and the analysis API answer.                                     *)
(***************************************************************************)
Bodies == {<<>>, <<77>>, <<255, 216, 255, 224>>}

ContentTypes ==
    { <<>>,
      <<"image/", "png">>,
      <<"IMAGE/", "png">>,
      <<"text/", "html">>,
      <<"application/", "pdf">>,
      <<"APPLICATION/", "PDF">> }

Raised(exc) == [t |-> "raise", exc |-> exc]
Response(status, ctype, content) ==
    [t |-> "response", status_code |-> status, content_type |-> ctype, content |-> content]

\* what requests.get can answer for a URL it accepts
GetOutcomes ==
    {Raised("ConnectionError"), Raised("Timeout")}
    \cup {Response(200, c, <<77>>) : c \in ContentTypes}
    \cup {Response(200, <<"image/", "png">>, b) : b \in Bodies}
    \cup {Response(204, <<>>, <<>>)}
    \cup {Response(404, <<"text/", "html">>, <<77>>)}
    \cup {Response(500, <<>>, <<>>)}

\* ~/.cursor/mcp.json: readable with a key, readable without, unreadable
ConfigOutcomes == {"key", "nokey", "nofile"}
\* os.getenv("OPENAI_API_KEY")
EnvKeyOutcomes == {"key", "empty", "unset"}
\* client.chat.completions.create
ApiOutcomes == {"answer", "raise"}

\* sys.stdin's error handler: strict under a UTF-8 locale, surrogateescape
\* under the C/POSIX locale
StdinErrors == {"strict", "surrogateescape"}

Envs == [get : GetOutcomes, config : ConfigOutcomes, envkey : EnvKeyOutcomes,
         api : ApiOutcomes, stdin_errors : StdinErrors]

\* the environment in which everything answers and succeeds
AllGood ==
    [get |-> Response(200, <<"image/", "png">>, <<77>>), config |-> "key",
     envkey |-> "key", api |-> "answer", stdin_errors |-> "surrogateescape"]

\* requests.get(url, ...): a URL that does not begin with http:// or https://
\* is refused (MissingSchema, InvalidSchema) before anything is sent
requests_get(url, e) == IF HasHttpScheme(url) THEN e.get ELSE Raised("MissingSchema")

\* the events an invocation leaves behind, each with the answer it got
ReadEvent(outcome) == [op |-> "READ", outcome |-> outcome]
GetEvent(url, outcome) == [op |-> "GET", url |-> url, outcome |-> outcome]
ConfigEvent(outcome) == [op |-> "CONFIG", outcome |-> outcome]
EnvKeyEvent(outcome) == [op |-> "GETENV", outcome |-> outcome]
ApiEvent(payload, outcome) == [op |-> "API", payload |-> payload, outcome |-> outcome]

Ops(events) == {events[i].op : i \in DOMAIN events}

\* The environments worth telling apart for a run that consulted `consulted`
\* when everything succeeded: a component the run cannot consult stays at its
\* AllGood value, since it cannot change what the run does.
EnvsConsulting(consulted) ==
    [get : IF "GET" \in consulted THEN GetOutcomes ELSE {AllGood.get},
     config : IF "CONFIG" \in consulted THEN ConfigOutcomes ELSE {AllGood.config},
     envkey : IF "GETENV" \in consulted THEN EnvKeyOutcomes ELSE {AllGood.envkey},
     api : IF "API" \in consulted THEN ApiOutcomes ELSE {AllGood.api},
     stdin_errors : IF "READ" \in consulted THEN StdinErrors ELSE {AllGood.stdin_errors}]

\* what the analysis request carries: the image inline, or a text naming the URL
ImagePayload(data) == [kind |-> "image", data |-> data]
TextPayload(url) == [kind |-> "text", url |-> url]

\* what a function hands back: a value, or the message of the exception it raised
Return(val, events) == [ok |-> TRUE, val |-> val, log |-> events]
Raise(msg, events) == [ok |-> FALSE, msg |-> msg, log |-> events]

(***************************************************************************)
(* src/mcp-graphic-design.py: the hand-rolled server                       *)
(***************************************************************************)
PARSE_ERROR == 0 - 32700
METHOD_NOT_FOUND == 0 - 32601
SERVER_ERROR == 0 - 32000

get_openai_key_from_cursor_config(e) ==
    CASE e.config = "key" -> Return("api_key", <<ConfigEvent("key")>>)
      [] e.config = "nokey" ->
            Raise(<<"API key alinirken hata: ",
                    "OpenAI API key Cursor MCP konfigurasyonunda bulunamadi">>,
                  <<ConfigEvent("nokey")>>)
      [] OTHER ->
            Raise(<<"API key alinirken hata: ", "FileNotFoundError">>,
                  <<ConfigEvent("nofile")>>)

\* mutant: the protocol version of an older revision
initialize_server_OldProtocol(request_id) ==
    [jsonrpc |-> "2.0",
     id |-> request_id,
     result |-> [protocolVersion |-> "2024-10-07",
                 capabilities |-> [tools |-> <<>>, logging |-> <<>>,
                                   prompts |-> <<>>, resources |-> <<>>],
                 serverInfo |-> [name |-> "Grafik Tasarim MCP",
                                 version |-> "1.0.0"]]]

initialize_server(request_id) ==
    [jsonrpc |-> "2.0",
     id |-> request_id,
     result |-> [protocolVersion |-> "2024-11-05",
                 capabilities |-> [tools |-> <<>>, logging |-> <<>>,
                                   prompts |-> <<>>, resources |-> <<>>],
                 serverInfo |-> [name |-> "Grafik Tasarim MCP",
                                 version |-> "1.0.0"]]]

\* mutant: a second tool is advertised that call_tool does not know
list_tools_ExtraTool(request_id) ==
    [jsonrpc |-> "2.0",
     id |-> request_id,
     result |-> [tools |-> << [name |-> "analyze_design",
                               description |-> "Grafik tasarim gorselini analiz eder ve puanlama yapar",
                               inputSchema |-> [type |-> "object",
                                                properties |-> {"url"},
                                                required |-> <<"url">>]],
                              [name |-> "analyze_copywriting",
                               description |-> "Metin analizi",
                               inputSchema |-> [type |-> "object",
                                                properties |-> {"url"},
                                                required |-> <<"url">>]] >>]]

list_tools(request_id) ==
    [jsonrpc |-> "2.0",
     id |-> request_id,
     result |-> [tools |-> << [name |-> "analyze_design",
                               description |-> "Grafik tasarim gorselini analiz eder ve puanlama yapar",
                               inputSchema |-> [type |-> "object",
                                                properties |-> {"url"},
                                                required |-> <<"url">>]] >>]]

\* mutant: a download that fails is attempted a second time
fetch_image_base64_Retry(url, e) ==
    LET r == requests_get(url, e)
        ev == <<GetEvent(url, r)>>
    IN IF r.t = "raise"
       THEN Raise(<<"Gorsel indirme hatasi: ", r.exc>>, ev \o ev)
       ELSE IF r.status_code # 200
       THEN Raise(<<"Gorsel indirme hatasi: ", "Gorsel indirilemedi. HTTP ",
                    ToString(r.status_code)>>, ev \o ev)
       ELSE Return(B64Encode(r.content), ev)

fetch_image_base64(url, e) ==
    LET r == requests_get(url, e)
        ev == <<GetEvent(url, r)>>
    IN IF r.t = "raise"
       THEN Raise(<<"Gorsel indirme hatasi: ", r.exc>>, ev)
       ELSE IF r.status_code # 200
       THEN Raise(<<"Gorsel indirme hatasi: ", "Gorsel indirilemedi. HTTP ",
                    ToString(r.status_code)>>, ev)
       ELSE Return(B64Encode(r.content), ev)

analyze_image_with_openai(b64img, e) ==
    LET k == get_openai_key_from_cursor_config(e)
    IN IF ~k.ok
       THEN Raise(<<"OpenAI analiz hatasi: ">> \o k.msg, k.log)
       ELSE IF e.api = "raise"
       THEN Raise(<<"OpenAI analiz hatasi: ", "APIError">>,
                  k.log \o <<ApiEvent(ImagePayload(b64img), "raise")>>)
       ELSE Return("analysis", k.log \o <<ApiEvent(ImagePayload(b64img), "answer")>>)

\* mutant: the error envelope is built with a null id, as the parse-error one is
ToolError_NullId(request_id, msg) ==
    [jsonrpc |-> "2.0",
     id |-> None,
     error |-> [code |-> SERVER_ERROR, message |-> msg]]

ToolError(request_id, msg) ==
    [jsonrpc |-> "2.0",
     id |-> request_id,
     error |-> [code |-> SERVER_ERROR, message |-> msg]]

\* line 135: url.lstrip('@').strip()
CleanUrlHandRolled(url) == Strip(LStrip(url, {AT}))

\* mutant: the tool name is matched without regard to case
IsRegisteredTool_IgnoreCase(tool_name) ==
    tool_name \in {PyStr("analyze_design"), PyStr("Analyze_Design")}

\* line 129: tool_name == "analyze_design"
IsRegisteredTool(tool_name) == tool_name = PyStr("analyze_design")

call_tool(request_id, tool_name, arguments, e) ==
    IF IsRegisteredTool(tool_name)
    THEN IF ~IsDict(arguments)
         THEN [response |-> ToolError(request_id, <<"AttributeError: get">>), log |-> <<>>]
         ELSE LET url == DictGet(arguments.d, "url", None)
              IN IF ~Truthy(url)
                 THEN [response |-> ToolError(request_id, <<"URL parametresi gerekli">>),
                       log |-> <<>>]
                 ELSE IF ~IsText(url)
                 THEN [response |-> ToolError(request_id, <<"AttributeError: lstrip">>),
                       log |-> <<>>]
                 ELSE LET clean == CleanUrlHandRolled(url.s)
                          img == fetch_image_base64(clean, e)
                      IN IF ~img.ok
                         THEN [response |-> ToolError(request_id, img.msg), log |-> img.log]
                         ELSE LET an == analyze_image_with_openai(img.val, e)
                              IN IF ~an.ok
                                 THEN [response |-> ToolError(request_id, an.msg),
                                       log |-> img.log \o an.log]
                                 ELSE [response |->
                                         [jsonrpc |-> "2.0",
                                          id |-> request_id,
                                          result |-> [content |->
                                             << [type |-> "text",
                                                 text |-> <<"Grafik Tasarim Analizi: ", an.val>>] >>]],
                                       log |-> img.log \o an.log]
    ELSE [response |-> ToolError(request_id, <<"Bilinmeyen tool: ", Repr(tool_name)>>),
          log |-> <<>>]

ParseErrorResponse ==
    [jsonrpc |-> "2.0",
     id |-> None,
     error |-> [code |-> PARSE_ERROR, message |-> <<"Parse error: ", "JSONDecodeError">>]]

InternalErrorResponse(request_id, what) ==
    [jsonrpc |-> "2.0",
     id |-> request_id,
     error |-> [code |-> SERVER_ERROR, message |-> <<"Internal error: ", what>>]]

\* mutant: the method name is matched without regard to case
MethodIs_IgnoreCase(method, name) ==
    \/ method = PyStr(name)
    \/ name = "initialize" /\ method = PyStr("Initialize")

\* lines 180-186: method == "<name>"
MethodIs(method, name) == method = PyStr(name)

\* mutant: tools/list looks the API key up before it answers
Dispatch_ListReadsConfig(payload, e) ==
    IF ~IsDict(payload)
    THEN [out |-> <<InternalErrorResponse(None, "AttributeError: get")>>, log |-> <<>>]
    ELSE LET method == DictGet(payload.d, "method", None)
             request_id == DictGet(payload.d, "id", None)
             params == DictGet(payload.d, "params", PyDict(<<>>))
         IN CASE MethodIs(method, "initialize") ->
                    [out |-> <<initialize_server(request_id)>>, log |-> <<>>]
              [] MethodIs(method, "tools/list") ->
                    [out |-> <<list_tools(request_id)>>,
                     log |-> get_openai_key_from_cursor_config(e).log]
              [] MethodIs(method, "tools/call") ->
                    IF ~IsDict(params)
                    THEN [out |-> <<InternalErrorResponse(request_id, "AttributeError: get")>>,
                          log |-> <<>>]
                    ELSE LET tool_name == DictGet(params.d, "name", None)
                             arguments == DictGet(params.d, "arguments", PyDict(<<>>))
                             r == call_tool(request_id, tool_name, arguments, e)
                         IN [out |-> <<r.response>>, log |-> r.log]
              [] OTHER ->
                    [out |-> << [jsonrpc |-> "2.0",
                                 id |-> request_id,
                                 error |-> [code |-> METHOD_NOT_FOUND,
                                            message |-> <<"Method not found: ", Repr(method)>>]] >>,
                     log |-> <<>>]

\* lines 176-200: the payload has been parsed
Dispatch(payload, e) ==
    IF ~IsDict(payload)
    THEN [out |-> <<InternalErrorResponse(None, "AttributeError: get")>>, log |-> <<>>]
    ELSE LET method == DictGet(payload.d, "method", None)
             request_id == DictGet(payload.d, "id", None)
             params == DictGet(payload.d, "params", PyDict(<<>>))
         IN CASE MethodIs(method, "initialize") ->
                    [out |-> <<initialize_server(request_id)>>, log |-> <<>>]
              [] MethodIs(method, "tools/list") ->
                    [out |-> <<list_tools(request_id)>>, log |-> <<>>]
              [] MethodIs(method, "tools/call") ->
                    IF ~IsDict(params)
                    THEN [out |-> <<InternalErrorResponse(request_id, "AttributeError: get")>>,
                          log |-> <<>>]
                    ELSE LET tool_name == DictGet(params.d, "name", None)
                             arguments == DictGet(params.d, "arguments", PyDict(<<>>))
                             r == call_tool(request_id, tool_name, arguments, e)
                         IN [out |-> <<r.response>>, log |-> r.log]
              [] OTHER ->
                    [out |-> << [jsonrpc |-> "2.0",
                                 id |-> request_id,
                                 error |-> [code |-> METHOD_NOT_FOUND,
                                            message |-> <<"Method not found: ", Repr(method)>>]] >>,
                     log |-> <<>>]

\* mutant: the blank check is missing, json.loads rejects the blank text
main_NoBlankCheck(stdin, e) ==
    CASE stdin.kind = "undecodable" /\ e.stdin_errors = "strict" ->
            [out |-> <<InternalErrorResponse(None, "UnicodeDecodeError")>>,
             log |-> <<ReadEvent("strict")>>]
      [] stdin.kind = "undecodable" /\ e.stdin_errors # "strict" ->
            [out |-> <<ParseErrorResponse>>, log |-> <<ReadEvent("surrogateescape")>>]
      [] stdin.kind = "blank" -> [out |-> <<ParseErrorResponse>>, log |-> <<>>]
      [] stdin.kind = "malformed" -> [out |-> <<ParseErrorResponse>>, log |-> <<>>]
      [] OTHER -> Dispatch(stdin.payload, e)

\* main(): the whole standard input is one message
main(stdin, e) ==
    CASE stdin.kind = "undecodable" /\ e.stdin_errors = "strict" ->
            [out |-> <<InternalErrorResponse(None, "UnicodeDecodeError")>>,
             log |-> <<ReadEvent("strict")>>]
      [] stdin.kind = "undecodable" /\ e.stdin_errors # "strict" ->
            [out |-> <<ParseErrorResponse>>, log |-> <<ReadEvent("surrogateescape")>>]
      [] stdin.kind = "blank" -> [out |-> <<>>, log |-> <<>>]
      [] stdin.kind = "malformed" -> [out |-> <<ParseErrorResponse>>, log |-> <<>>]
      [] OTHER -> Dispatch(stdin.payload, e)

(***************************************************************************)
(* src/mcp_graphic_design.py: the FastMCP tools.  A tool returns a string,  *)
(* kept as the sequence of its parts.                                      *)
(***************************************************************************)
ERR_EMPTY == <<"Error: URL cannot be empty">>
ERR_SCHEME == <<"Error: Please provide a valid HTTP/HTTPS URL">>
ERR_NO_KEY ==
    <<"Error: OPENAI_API_KEY environment variable not found. Please set your OpenAI API key.">>
ERR_NOT_IMAGE == <<"Error: The provided URL does not point to an image file">>
ERR_NOT_PDF == <<"Error: The provided URL does not appear to point to a PDF file">>
NETWORK_ERROR == "**Network Error:** "
GENERIC_ERROR == "**Error:** "

\* mutant: blanks are stripped together with the '@' characters
CleanUrlFastMCP_AtAndBlanks(url) == LStrip(Strip(url), {AT, SP})

\* line 42: url.strip().lstrip('@')
CleanUrlFastMCP(url) == LStrip(Strip(url), {AT})

\* os.getenv("OPENAI_API_KEY") is set and not empty
HasApiKey(e) == e.envkey = "key"

\* mutant: only server errors raise
RaisesForStatus_ServerOnly(r) == r.status_code >= 500 /\ r.status_code < 600

\* response.raise_for_status() raises HTTPError for 4xx and 5xx
RaisesForStatus(r) == r.status_code >= 400 /\ r.status_code < 600

\* mutant: the content type is lowered before the prefix test
IsImageContentType_IgnoreCase(ctype) == StartsWith(Lower(ctype), "image/")

\* line 62: content_type.startswith('image/')
IsImageContentType(ctype) == StartsWith(ctype, "image/")

\* 'pdf' in s
ContainsPdf(s) == \E i \in 1..Len(s) : s[i] \in {"pdf", ".pdf"}

\* mutant: '.pdf' is looked for anywhere in the URL instead of at its end
LooksLikePdf_Anywhere(ctype, url) ==
    \/ \E i \in 1..Len(ctype) : Lower(ctype)[i] \in {"pdf", ".pdf"}
    \/ \E i \in 1..Len(url) : Lower(url)[i] = ".pdf"

\* line 870: 'pdf' in content_type.lower() or url.lower().endswith('.pdf')
LooksLikePdf(ctype, url) == ContainsPdf(Lower(ctype)) \/ EndsWith(Lower(url), ".pdf")

Result(text, events) == [text |-> text, log |-> events]

\* lines 37-120, the body shared by the image tools: title, footer and the
\* word in the network error are the only differences between them
ImageTool(url, e, title, footer, what) ==
    IF ~Truthy(url) THEN Result(ERR_EMPTY, <<>>)
    ELSE IF ~IsText(url) THEN Result(<<GENERIC_ERROR, "AttributeError: strip">>, <<>>)
    ELSE IF Strip(url.s) = <<>> THEN Result(ERR_EMPTY, <<>>)
    ELSE LET clean == CleanUrlFastMCP(url.s)
         IN IF ~HasHttpScheme(clean) THEN Result(ERR_SCHEME, <<>>)
            ELSE LET ek == <<EnvKeyEvent(e.envkey)>>
                 IN IF ~HasApiKey(e) THEN Result(ERR_NO_KEY, ek)
                    ELSE LET r == requests_get(clean, e)
                             eg == ek \o <<GetEvent(clean, r)>>
                         IN IF r.t = "raise"
                            THEN Result(<<NETWORK_ERROR, "Could not download ", what,
                                          " from URL. ", r.exc>>, eg)
                            ELSE IF RaisesForStatus(r)
                            THEN Result(<<NETWORK_ERROR, "Could not download ", what,
                                          " from URL. ", "HTTPError ",
                                          ToString(r.status_code)>>, eg)
                            ELSE IF ~IsImageContentType(r.content_type)
                            THEN Result(ERR_NOT_IMAGE, eg)
                            ELSE LET data == B64Encode(r.content)
                                     ea == eg \o <<ApiEvent(ImagePayload(data), e.api)>>
                                 IN IF e.api = "raise"
                                    THEN Result(<<GENERIC_ERROR, "APIError">>, ea)
                                    ELSE Result(<<title, "analysis", "ANALYZED IMAGE: ">>
                                                \o clean \o <<footer>>, ea)

analyze_design(url, e) ==
    ImageTool(url, e, "GRAPHIC DESIGN ANALYSIS REPORT",
              "Analysis powered by OpenAI GPT-4 Vision", "image")

analyze_copywriting(url, e) ==
    ImageTool(url, e, "COPYWRITING ANALYSIS REPORT",
              "Analysis powered by OpenAI GPT-4 Vision", "image")

analyze_layout_alignment(url, e) ==
    ImageTool(url, e, "LAYOUT & ALIGNMENT ANALYSIS REPORT",
              "Analysis powered by OpenAI GPT-4o Vision - Layout Specialist", "image")

analyze_architectural_design(url, e) ==
    ImageTool(url, e, "ARCHITECTURAL DESIGN ANALYSIS REPORT",
              "Analysis powered by OpenAI GPT-4o Vision - Architectural Specialist", "image")

\* lines 831-966: the second definition, the one the module name is bound to
analyze_pdf_presentation(url, e) ==
    IF ~Truthy(url) THEN Result(ERR_EMPTY, <<>>)
    ELSE IF ~IsText(url) THEN Result(<<GENERIC_ERROR, "AttributeError: strip">>, <<>>)
    ELSE IF Strip(url.s) = <<>> THEN Result(ERR_EMPTY, <<>>)
    ELSE LET clean == CleanUrlFastMCP(url.s)
         IN IF ~HasHttpScheme(clean) THEN Result(ERR_SCHEME, <<>>)
            ELSE LET ek == <<EnvKeyEvent(e.envkey)>>
                 IN IF ~HasApiKey(e) THEN Result(ERR_NO_KEY, ek)
                    ELSE LET r == requests_get(clean, e)
                             eg == ek \o <<GetEvent(clean, r)>>
                         IN IF r.t = "raise"
                            THEN Result(<<NETWORK_ERROR, "Could not download ", "PDF",
                                          " from URL. ", r.exc>>, eg)
                            ELSE IF RaisesForStatus(r)
                            THEN Result(<<NETWORK_ERROR, "Could not download ", "PDF",
                                          " from URL. ", "HTTPError ",
                                          ToString(r.status_code)>>, eg)
                            ELSE IF ~LooksLikePdf(r.content_type, clean)
                            THEN Result(ERR_NOT_PDF, eg)
                            ELSE LET ea == eg \o <<ApiEvent(TextPayload(clean), e.api)>>
                                 IN IF e.api = "raise"
                                    THEN Result(<<GENERIC_ERROR, "APIError">>, ea)
                                    ELSE Result(<<"PDF PRESENTATION ANALYSIS REPORT",
                                                  "ANALYZED PDF: ">> \o clean
                                                \o <<"analysis",
                                                     "Analysis powered by OpenAI GPT-4o & Presentation Design Principles">>,
                                                ea)

\* mutant: the URL is cleaned as the image tools clean it
CleanUrlWebsite_LikeImageTools(url) == LStrip(Strip(url), {AT})

\* line 252: url.strip(); the '@' of a chat mention stays
CleanUrlWebsite(url) == Strip(url)

\* lines 254-255: a URL without a scheme is given https://
WithScheme(url) == IF HasHttpScheme(url) THEN url ELSE <<"https://">> \o url

\* lines 233-342: the site is never fetched, the prompt names its URL
analyze_website_design(url, e) ==
    IF ~Truthy(url) THEN Result(ERR_EMPTY, <<>>)
    ELSE IF ~IsText(url) THEN Result(<<GENERIC_ERROR, "AttributeError: strip">>, <<>>)
    ELSE IF Strip(url.s) = <<>> THEN Result(ERR_EMPTY, <<>>)
    ELSE LET site == WithScheme(CleanUrlWebsite(url.s))
             ek == <<EnvKeyEvent(e.envkey)>>
         IN IF ~HasApiKey(e) THEN Result(ERR_NO_KEY, ek)
            ELSE LET ea == ek \o <<ApiEvent(TextPayload(site), e.api)>>
                 IN IF e.api = "raise"
                    THEN Result(<<GENERIC_ERROR, "APIError">>, ea)
                    ELSE Result(<<"WEBSITE DESIGN ANALYSIS REPORT", "ANALYZED WEBSITE: ">>
                                  \o site
                                  \o <<"analysis",
                                       "Analysis powered by OpenAI GPT-4o & Web Design Principles">>,
                                ea)

(***************************************************************************)
(* Google sharing links                                                    *)
(*                                                                         *)
(* A link handed to the converter is spelled over an alphabet of its own:  *)
(* the scheme word is a token by itself, because the identifier class      *)
(* [a-zA-Z0-9-_] of the patterns matches it like any other word, and the   *)
(* rest of each pattern's literal text is one token.  The URLs that the    *)
(* converter builds are literals of the code and are spelled with the      *)
(* scheme token "https://" that the tools look for.                        *)
(***************************************************************************)
SLIDES_PATH == "://docs.google.com/presentation/d/"
DRIVE_PATH == "://drive.google.com/file/d/"
DOCS_PATH == "://docs.google.com/document/d/"
SHEETS_PATH == "://docs.google.com/spreadsheets/d/"

\* the tokens that consist of characters of [a-zA-Z0-9-_] only
IdTokens == {"a", "http", "https"}

NoMatch == [matched |-> FALSE]

\* mutant: the scheme of the link may be http as well
re_search_AnyScheme(path, url) ==
    LET starts == {i \in 1..(Len(url) - 2) :
                      url[i] \in {"http", "https"} /\ url[i + 1] = path /\ url[i + 2] \in IdTokens}
    IN IF starts = {} THEN NoMatch
       ELSE LET i == MinOf(starts)
                k == MaxOf({n \in (i + 2)..Len(url) :
                               \A m \in (i + 2)..n : url[m] \in IdTokens})
            IN [matched |-> TRUE, group1 |-> SubSeq(url, i + 2, k)]

\* re.search(r'https<path>([a-zA-Z0-9-_]+)', url): the leftmost place where
\* the literal text is followed by an identifier character; group(1) is the
\* longest run of identifier characters from there
re_search(path, url) ==
    LET starts == {i \in 1..(Len(url) - 2) :
                      url[i] = "https" /\ url[i + 1] = path /\ url[i + 2] \in IdTokens}
    IN IF starts = {} THEN NoMatch
       ELSE LET i == MinOf(starts)
                k == MaxOf({n \in (i + 2)..Len(url) :
                               \A m \in (i + 2)..n : url[m] \in IdTokens})
            IN [matched |-> TRUE, group1 |-> SubSeq(url, i + 2, k)]

\* mutant: the scheme is left out of the URL
UrlInfo_NoScheme(format, url, description) ==
    [format |-> format, url |-> Tail(url), description |-> description]

UrlInfo(format, url, description) ==
    [format |-> format, url |-> url, description |-> description]

\* mutant: the Drive pattern is tried before the Slides pattern
converter_convert_google_links_to_direct_urls_DriveFirst(url) ==
    LET slides_match == re_search(SLIDES_PATH, url)
        drive_match == re_search(DRIVE_PATH, url)
        docs_match == re_search(DOCS_PATH, url)
        sheets_match == re_search(SHEETS_PATH, url)
    IN IF drive_match.matched
       THEN LET file_id == drive_match.group1
            IN [original_url |-> url, file_type |-> "google_drive", file_id |-> file_id,
                analysis_urls |->
                  << UrlInfo("direct_download",
                             <<"https://", "drive.google.com/u/0/uc?id=">> \o file_id
                                 \o <<"&export=download">>,
                             "Direct download link for the file") >>]
       ELSE IF slides_match.matched
       THEN LET file_id == slides_match.group1
            IN [original_url |-> url, file_type |-> "google_slides", file_id |-> file_id,
                analysis_urls |->
                  << UrlInfo("pdf",
                             <<"https://", "docs.google.com/presentation/d/">> \o file_id
                                 \o <<"/export/pdf">>,
                             "PDF version for presentation analysis"),
                     UrlInfo("pptx",
                             <<"https://", "docs.google.com/presentation/d/">> \o file_id
                                 \o <<"/export/pptx">>,
                             "PowerPoint version for download") >>]
       ELSE IF docs_match.matched
       THEN LET file_id == docs_match.group1
            IN [original_url |-> url, file_type |-> "google_docs", file_id |-> file_id,
                analysis_urls |->
                  << UrlInfo("pdf",
                             <<"https://", "docs.google.com/document/d/">> \o file_id
                                 \o <<"/export?format=pdf">>,
                             "PDF version for document analysis"),
                     UrlInfo("docx",
                             <<"https://", "docs.google.com/document/d/">> \o file_id
                                 \o <<"/export?format=docx">>,
                             "Word document version") >>]
       ELSE IF sheets_match.matched
       THEN LET file_id == sheets_match.group1
            IN [original_url |-> url, file_type |-> "google_sheets", file_id |-> file_id,
                analysis_urls |->
                  << UrlInfo("pdf",
                             <<"https://", "docs.google.com/spreadsheets/d/">> \o file_id
                                 \o <<"/export?format=pdf">>,
                             "PDF version for analysis"),
                     UrlInfo("xlsx",
                             <<"https://", "docs.google.com/spreadsheets/d/">> \o file_id
                                 \o <<"/export?format=xlsx">>,
                             "Excel version for download") >>]
       ELSE [original_url |-> url, file_type |-> "unknown", analysis_urls |-> <<>>,
             error |-> "URL format not recognized as a Google file sharing link"]

\* src/google_link_converter.py, lines 10-116
converter_convert_google_links_to_direct_urls(url) ==
    LET slides_match == re_search(SLIDES_PATH, url)
        drive_match == re_search(DRIVE_PATH, url)
        docs_match == re_search(DOCS_PATH, url)
        sheets_match == re_search(SHEETS_PATH, url)
    IN IF slides_match.matched
       THEN LET file_id == slides_match.group1
            IN [original_url |-> url, file_type |-> "google_slides", file_id |-> file_id,
                analysis_urls |->
                  << UrlInfo("pdf",
                             <<"https://", "docs.google.com/presentation/d/">> \o file_id
                                 \o <<"/export/pdf">>,
                             "PDF version for presentation analysis"),
                     UrlInfo("pptx",
                             <<"https://", "docs.google.com/presentation/d/">> \o file_id
                                 \o <<"/export/pptx">>,
                             "PowerPoint version for download") >>]
       ELSE IF drive_match.matched
       THEN LET file_id == drive_match.group1
            IN [original_url |-> url, file_type |-> "google_drive", file_id |-> file_id,
                analysis_urls |->
                  << UrlInfo("direct_download",
                             <<"https://", "drive.google.com/u/0/uc?id=">> \o file_id
                                 \o <<"&export=download">>,
                             "Direct download link for the file") >>]
       ELSE IF docs_match.matched
       THEN LET file_id == docs_match.group1
            IN [original_url |-> url, file_type |-> "google_docs", file_id |-> file_id,
                analysis_urls |->
                  << UrlInfo("pdf",
                             <<"https://", "docs.google.com/document/d/">> \o file_id
                                 \o <<"/export?format=pdf">>,
                             "PDF version for document analysis"),
                     UrlInfo("docx",
                             <<"https://", "docs.google.com/document/d/">> \o file_id
                                 \o <<"/export?format=docx">>,
                             "Word document version") >>]
       ELSE IF sheets_match.matched
       THEN LET file_id == sheets_match.group1
            IN [original_url |-> url, file_type |-> "google_sheets", file_id |-> file_id,
                analysis_urls |->
                  << UrlInfo("pdf",
                             <<"https://", "docs.google.com/spreadsheets/d/">> \o file_id
                                 \o <<"/export?format=pdf">>,
                             "PDF version for analysis"),
                     UrlInfo("xlsx",
                             <<"https://", "docs.google.com/spreadsheets/d/">> \o file_id
                                 \o <<"/export?format=xlsx">>,
                             "Excel version for download") >>]
       ELSE [original_url |-> url, file_type |-> "unknown", analysis_urls |-> <<>>,
             error |-> "URL format not recognized as a Google file sharing link"]

\* the same with the two exports of a Google Docs link in the other order
convert_google_links_to_direct_urls_DocxFirst(url) ==
    LET slides_match == re_search(SLIDES_PATH, url)
        drive_match == re_search(DRIVE_PATH, url)
        docs_match == re_search(DOCS_PATH, url)
        sheets_match == re_search(SHEETS_PATH, url)
    IN IF slides_match.matched
       THEN LET file_id == slides_match.group1
            IN [original_url |-> url, file_type |-> "google_slides", file_id |-> file_id,
                analysis_urls |->
                  << UrlInfo("pdf",
                             <<"https://", "docs.google.com/presentation/d/">> \o file_id
                                 \o <<"/export/pdf">>,
                             "PDF version for presentation analysis"),
                     UrlInfo("pptx",
                             <<"https://", "docs.google.com/presentation/d/">> \o file_id
                                 \o <<"/export/pptx">>,
                             "PowerPoint version for download") >>]
       ELSE IF drive_match.matched
       THEN LET file_id == drive_match.group1
            IN [original_url |-> url, file_type |-> "google_drive", file_id |-> file_id,
                analysis_urls |->
                  << UrlInfo("direct_download",
                             <<"https://", "drive.google.com/u/0/uc?id=">> \o file_id
                                 \o <<"&export=download">>,
                             "Direct download link for the file") >>]
       ELSE IF docs_match.matched
       THEN LET file_id == docs_match.group1
            IN [original_url |-> url, file_type |-> "google_docs", file_id |-> file_id,
                analysis_urls |->
                  << UrlInfo("docx",
                             <<"https://", "docs.google.com/document/d/">> \o file_id
                                 \o <<"/export?format=docx">>,
                             "Word document version"),
                     UrlInfo("pdf",
                             <<"https://", "docs.google.com/document/d/">> \o file_id
                                 \o <<"/export?format=pdf">>,
                             "PDF version for document analysis") >>]
       ELSE IF sheets_match.matched
       THEN LET file_id == sheets_match.group1
            IN [original_url |-> url, file_type |-> "google_sheets", file_id |-> file_id,
                analysis_urls |->
                  << UrlInfo("pdf",
                             <<"https://", "docs.google.com/spreadsheets/d/">> \o file_id
                                 \o <<"/export?format=pdf">>,
                             "PDF version for analysis"),
                     UrlInfo("xlsx",
                             <<"https://", "docs.google.com/spreadsheets/d/">> \o file_id
                                 \o <<"/export?format=xlsx">>,
                             "Excel version for download") >>]
       ELSE [original_url |-> url, file_type |-> "unknown", analysis_urls |-> <<>>,
             error |-> "URL format not recognized as a Google file sharing link"]

\* src/mcp_graphic_design.py, lines 674-780
convert_google_links_to_direct_urls(url) ==
    LET slides_match == re_search(SLIDES_PATH, url)
        drive_match == re_search(DRIVE_PATH, url)
        docs_match == re_search(DOCS_PATH, url)
        sheets_match == re_search(SHEETS_PATH, url)
    IN IF slides_match.matched
       THEN LET file_id == slides_match.group1
            IN [original_url |-> url, file_type |-> "google_slides", file_id |-> file_id,
                analysis_urls |->
                  << UrlInfo("pdf",
                             <<"https://", "docs.google.com/presentation/d/">> \o file_id
                                 \o <<"/export/pdf">>,
                             "PDF version for presentation analysis"),
                     UrlInfo("pptx",
                             <<"https://", "docs.google.com/presentation/d/">> \o file_id
                                 \o <<"/export/pptx">>,
                             "PowerPoint version for download") >>]
       ELSE IF drive_match.matched
       THEN LET file_id == drive_match.group1
            IN [original_url |-> url, file_type |-> "google_drive", file_id |-> file_id,
                analysis_urls |->
                  << UrlInfo("direct_download",
                             <<"https://", "drive.google.com/u/0/uc?id=">> \o file_id
                                 \o <<"&export=download">>,
                             "Direct download link for the file") >>]
       ELSE IF docs_match.matched
       THEN LET file_id == docs_match.group1
            IN [original_url |-> url, file_type |-> "google_docs", file_id |-> file_id,
                analysis_urls |->
                  << UrlInfo("pdf",
                             <<"https://", "docs.google.com/document/d/">> \o file_id
                                 \o <<"/export?format=pdf">>,
                             "PDF version for document analysis"),
                     UrlInfo("docx",
                             <<"https://", "docs.google.com/document/d/">> \o file_id
                                 \o <<"/export?format=docx">>,
                             "Word document version") >>]
       ELSE IF sheets_match.matched
       THEN LET file_id == sheets_match.group1
            IN [original_url |-> url, file_type |-> "google_sheets", file_id |-> file_id,
                analysis_urls |->
                  << UrlInfo("pdf",
                             <<"https://", "docs.google.com/spreadsheets/d/">> \o file_id
                                 \o <<"/export?format=pdf">>,
                             "PDF version for analysis"),
                     UrlInfo("xlsx",
                             <<"https://", "docs.google.com/spreadsheets/d/">> \o file_id
                                 \o <<"/export?format=xlsx">>,
                             "Excel version for download") >>]
       ELSE [original_url |-> url, file_type |-> "unknown", analysis_urls |-> <<>>,
             error |-> "URL format not recognized as a Google file sharing link"]

\* file_type.replace('_', ' ').title()
TitleOf(file_type) ==
    CASE file_type = "google_slides" -> "Google Slides"
      [] file_type = "google_drive" -> "Google Drive"
      [] file_type = "google_docs" -> "Google Docs"
      [] file_type = "google_sheets" -> "Google Sheets"
      [] OTHER -> "Unknown"

\* format.upper()
UpperOf(format) ==
    CASE format = "pdf" -> "PDF"
      [] format = "pptx" -> "PPTX"
      [] format = "docx" -> "DOCX"
      [] format = "xlsx" -> "XLSX"
      [] OTHER -> "DIRECT_DOWNLOAD"

ConvertEvent(results) == [op |-> "CONVERT", results |-> results]

\* src/google_link_converter.py, lines 118-140: the lines printed for one URL
RECURSIVE NumberedUrlLines(_, _)
NumberedUrlLines(analysis_urls, i) ==
    IF i > Len(analysis_urls) THEN <<>>
    ELSE << <<ToString(i), ". ", UpperOf(analysis_urls[i].format), ":">>,
            <<"   URL: ">> \o analysis_urls[i].url,
            <<"   Use: ", analysis_urls[i].description>>,
            <<>> >> \o NumberedUrlLines(analysis_urls, i + 1)

display_conversion_results(url) ==
    LET results == converter_convert_google_links_to_direct_urls(url)
        head == << <<"====">>, <<"GOOGLE LINK CONVERTER - DEMONSTRATION">>, <<"====">>,
                   <<"Original URL: ">> \o results.original_url >>
    IN [log |-> <<ConvertEvent(results)>>,
        out |-> IF "error" \in DOMAIN results
                THEN head \o << <<"Error: ", results.error>> >>
                ELSE head \o << <<"File Type: ", TitleOf(results.file_type)>>,
                                <<"File ID: ">> \o results.file_id,
                                <<"Available Analysis URLs:">> >>
                          \o NumberedUrlLines(results.analysis_urls, 1)]

\* lines 996-1003: the first pdf entry, else the first entry, else None
PreferredUrl(analysis_urls) ==
    LET pdfs == {i \in DOMAIN analysis_urls : analysis_urls[i].format = "pdf"}
    IN IF pdfs # {} THEN PyText(analysis_urls[MinOf(pdfs)].url)
       ELSE IF analysis_urls # <<>> THEN PyText(analysis_urls[1].url)
       ELSE None

\* lines 1019-1020: one bullet per entry of analysis_urls
RECURSIVE UrlBullets(_, _)
UrlBullets(analysis_urls, i) ==
    IF i > Len(analysis_urls) THEN <<>>
    ELSE <<UpperOf(analysis_urls[i].format), ": ">> \o analysis_urls[i].url
             \o <<analysis_urls[i].description>> \o UrlBullets(analysis_urls, i + 1)

\* lines 1009-1022
ConversionInfo(url, converted_links, analysis_url) ==
    <<"GOOGLE FILE LINK CONVERSION", "Original URL: ">> \o url
      \o <<"File Type: ", TitleOf(converted_links.file_type), "File ID: ">>
      \o (IF "file_id" \in DOMAIN converted_links THEN converted_links.file_id
          ELSE <<"Unknown">>)
      \o <<"Available Analysis URLs:">> \o UrlBullets(converted_links.analysis_urls, 1)
      \o <<"Using for Analysis: ">> \o analysis_url

\* mutant: whatever is left over goes to the presentation analyzer
RoutedTool_DefaultPdf(file_type, analysis_type) ==
    IF file_type = "google_slides" /\ analysis_type = "presentation"
    THEN "analyze_pdf_presentation"
    ELSE IF analysis_type = "design" THEN "analyze_design"
    ELSE IF analysis_type = "copywriting" THEN "analyze_copywriting"
    ELSE IF analysis_type = "layout" THEN "analyze_layout_alignment"
    ELSE "analyze_pdf_presentation"

\* lines 1025-1038: the analyzer chosen for a file type and an analysis type
RoutedTool(file_type, analysis_type) ==
    IF file_type = "google_slides" /\ analysis_type = "presentation"
    THEN "analyze_pdf_presentation"
    ELSE IF analysis_type = "design" THEN "analyze_design"
    ELSE IF analysis_type = "copywriting" THEN "analyze_copywriting"
    ELSE IF analysis_type = "layout" THEN "analyze_layout_alignment"
    ELSE IF file_type = "google_slides" THEN "analyze_pdf_presentation"
    ELSE "analyze_design"

\* the function bound to each name when analyze_google_file_link runs
Analyzer(name, url, e) ==
    CASE name = "analyze_design" -> analyze_design(url, e)
      [] name = "analyze_copywriting" -> analyze_copywriting(url, e)
      [] name = "analyze_layout_alignment" -> analyze_layout_alignment(url, e)
      [] OTHER -> analyze_pdf_presentation(url, e)

CallEvent(name, url) == [op |-> "CALL", name |-> name, url |-> url]

\* mutant: the URL is cleaned before the try block is entered
analyze_google_file_link_CleanOutsideTry(url, analysis_type, e) ==
    IF ~IsText(url) THEN [exc |-> "AttributeError: strip", log |-> <<>>]
    ELSE LET clean == LStrip(Strip(url.s), {AT})
             converted_links == convert_google_links_to_direct_urls(clean)
             ec == <<ConvertEvent(converted_links)>>
         IN IF "error" \in DOMAIN converted_links
            THEN Result(<<"Error: ", converted_links.error>>, ec)
            ELSE LET analysis_url == PreferredUrl(converted_links.analysis_urls)
                 IN IF ~Truthy(analysis_url)
                    THEN Result(<<"Could not generate analysis URL">>, ec)
                    ELSE LET name == RoutedTool(converted_links.file_type, analysis_type)
                             r == Analyzer(name, analysis_url, e)
                         IN Result(ConversionInfo(clean, converted_links, analysis_url.s)
                                     \o r.text,
                                   ec \o <<CallEvent(name, analysis_url.s)>> \o r.log)

\* lines 968-1044
analyze_google_file_link(url, analysis_type, e) ==
    IF ~IsText(url) THEN Result(<<"Analysis failed: ", "AttributeError: strip">>, <<>>)
    ELSE LET clean == LStrip(Strip(url.s), {AT})
             converted_links == convert_google_links_to_direct_urls(clean)
             ec == <<ConvertEvent(converted_links)>>
         IN IF "error" \in DOMAIN converted_links
            THEN Result(<<"Error: ", converted_links.error>>, ec)
            ELSE LET analysis_url == PreferredUrl(converted_links.analysis_urls)
                 IN IF ~Truthy(analysis_url)
                    THEN Result(<<"Could not generate analysis URL">>, ec)
                    ELSE LET name == RoutedTool(converted_links.file_type, analysis_type)
                             r == Analyzer(name, analysis_url, e)
                         IN Result(ConversionInfo(clean, converted_links, analysis_url.s)
                                     \o r.text,
                                   ec \o <<CallEvent(name, analysis_url.s)>> \o r.log)

(***************************************************************************)
(* Inputs                                                                  *)
(***************************************************************************)
UrlTokens == {SP, AT, "http://", "https://", "x", ".pdf", ".PDF"}

RECURSIVE SeqsUpTo(_, _)
SeqsUpTo(S, n) ==
    IF n = 0 THEN {<<>>}
    ELSE LET shorter == SeqsUpTo(S, n - 1)
         IN shorter \cup {Append(s, c) : s \in {t \in shorter : Len(t) = n - 1}, c \in S}

Urls == SeqsUpTo(UrlTokens, MaxUrlLen)

\* the values a JSON url member can have
UrlValues == {None, PyNum(0), PyNum(5), PyList} \cup {PyText(u) : u \in Urls}

Field(name, values) == {name :> v : v \in values}
Optional(name, values) == {<<>>} \cup Field(name, values)
Merge(A, B) == {a @@ b : a \in A, b \in B}

Ids == {None, PyNum(7), PyStr("a")}
Methods == {PyStr("initialize"), PyStr("tools/list"), PyStr("tools/call"),
            PyStr("Initialize"), PyStr("resources/list"), PyNum(5)}
ToolNames == {PyStr("analyze_design"), PyStr("Analyze_Design"),
              PyStr("analyze_copywriting"), PyNum(5)}

ArgumentsValues ==
    {PyList, None} \cup {PyDict(d) : d \in Optional("url", UrlValues)}

\* params of a tools/call: every url with the registered tool, a few with the others
CallParams ==
    {PyList, None}
    \cup {PyDict(d) : d \in Merge(Field("name", {PyStr("analyze_design")}),
                                  Optional("arguments", ArgumentsValues))}
    \cup {PyDict(d) : d \in Merge(Optional("name", ToolNames \ {PyStr("analyze_design")}),
                                  Optional("arguments",
                                           {PyList, PyDict(<<>>),
                                            PyDict([url |-> PyText(<<"https://", "x">>)]),
                                            PyDict([url |-> PyText(<<SP>>)])}))}

OtherParams ==
    {PyList, PyDict(<<>>),
     PyDict([name |-> PyStr("analyze_design"),
             arguments |-> PyDict([url |-> PyText(<<"https://", "x">>)])])}

Payloads ==
    {PyList, None, PyNum(5), PyStr("initialize")}
    \cup {PyDict(d) : d \in Merge(Optional("id", Ids),
                                  Merge(Field("method", {PyStr("tools/call")}),
                                        Optional("params", CallParams)))}
    \cup {PyDict(d) : d \in Merge(Optional("id", Ids),
                                  Merge(Optional("method", Methods \ {PyStr("tools/call")}),
                                        Optional("params", OtherParams)))}

\* Standard input is blank, bytes that are not UTF-8 (the offending byte
\* outside any string literal), text that json.loads rejects, or a JSON value.
\* `mentions` is the method name that a text which is not JSON happens to contain.
Mentions == {"", "initialize", "tools/list", "tools/call"}

Stdins ==
    {[kind |-> "blank"]}
    \cup {[kind |-> "undecodable", mentions |-> m] : m \in Mentions}
    \cup {[kind |-> "malformed", mentions |-> m] : m \in Mentions}
    \cup {[kind |-> "json", payload |-> p] : p \in Payloads}

\* the pieces Google sharing links are put together from: the literal text
\* of each pattern, the Slides text under the other scheme, a whole Drive
\* link, an identifier character, a blank and the '@' of a chat mention
GoogleParts ==
    {<<"https", SLIDES_PATH>>, <<"https", DRIVE_PATH>>, <<"https", DOCS_PATH>>,
     <<"https", SHEETS_PATH>>, <<"http", SLIDES_PATH>>, <<"https", DRIVE_PATH, "a">>,
     <<"a">>, <<SP>>, <<AT>>}

RECURSIVE Concat(_)
Concat(parts) == IF parts = <<>> THEN <<>> ELSE Head(parts) \o Concat(Tail(parts))

GoogleUrls == {Concat(parts) : parts \in SeqsUpTo(GoogleParts, MaxGoogleParts)}

GoogleUrlValues == {None, PyNum(5)} \cup {PyText(u) : u \in GoogleUrls}

AnalysisTypes == {"presentation", "design", "copywriting", "layout", "Presentation"}

(***************************************************************************)
(* State machine                                                           *)
(***************************************************************************)
NoInput == [kind |-> "none"]
NoReturn == [t |-> "none"]

Init ==
    /\ pc = "idle"
    /\ prog = "none"
    /\ tool = "none"
    /\ input = NoInput
    /\ out = <<>>
    /\ ret = NoReturn
    /\ log = <<>>

\* python mcp-graphic-design.py: one run of main() on the whole standard input
HandRolledMain ==
    /\ pc = "idle"
    /\ \E stdin \in Stdins :
       \E e \in EnvsConsulting(Ops(main(stdin, AllGood).log)) :
         LET r == main(stdin, e)
         IN /\ input' = stdin
            /\ out' = r.out
            /\ log' = r.log
    /\ prog' = "hand_rolled"
    /\ tool' = "main"
    /\ pc' = "exited"
    /\ UNCHANGED ret

\* what the server gets back from a tool function: the string it returned,
\* or the exception that left it
Returned(r) ==
    IF "text" \in DOMAIN r THEN [t |-> "str", text |-> r.text]
    ELSE [t |-> "raise", exc |-> r.exc]

\* the tool in effect under each registered name
RunTool(name, url, e) ==
    CASE name = "analyze_design" -> analyze_design(url, e)
      [] name = "analyze_copywriting" -> analyze_copywriting(url, e)
      [] name = "analyze_layout_alignment" -> analyze_layout_alignment(url, e)
      [] name = "analyze_architectural_design" -> analyze_architectural_design(url, e)
      [] name = "analyze_website_design" -> analyze_website_design(url, e)
      [] OTHER -> analyze_pdf_presentation(url, e)

\* the FastMCP server runs the tool `name` on one url argument
CallTool(name) ==
    /\ pc = "idle"
    /\ \E url \in UrlValues :
       \E e \in EnvsConsulting(Ops(RunTool(name, url, AllGood).log)) :
         LET r == RunTool(name, url, e)
         IN /\ input' = [kind |-> "arguments", url |-> url]
            /\ ret' = Returned(r)
            /\ log' = r.log
    /\ prog' = "fastmcp"
    /\ tool' = name
    /\ pc' = "returned"
    /\ UNCHANGED out

AnalyzeDesign == CallTool("analyze_design")
AnalyzeCopywriting == CallTool("analyze_copywriting")
AnalyzeLayoutAlignment == CallTool("analyze_layout_alignment")
AnalyzeArchitecturalDesign == CallTool("analyze_architectural_design")
AnalyzePdfPresentation == CallTool("analyze_pdf_presentation")
AnalyzeWebsiteDesign == CallTool("analyze_website_design")

\* the FastMCP server runs analyze_google_file_link on its two arguments
AnalyzeGoogleFileLink ==
    /\ pc = "idle"
    /\ \E url \in GoogleUrlValues, analysis_type \in AnalysisTypes :
       \E e \in EnvsConsulting(Ops(analyze_google_file_link(url, analysis_type, AllGood).log)) :
         LET r == analyze_google_file_link(url, analysis_type, e)
         IN /\ input' = [kind |-> "arguments", url |-> url,
                         analysis_type |-> analysis_type]
            /\ ret' = Returned(r)
            /\ log' = r.log
    /\ prog' = "fastmcp"
    /\ tool' = "analyze_google_file_link"
    /\ pc' = "returned"
    /\ UNCHANGED out

\* google_link_converter.py: display_conversion_results(url) prints the
\* conversion of one link
DisplayConversionResults ==
    /\ pc = "idle"
    /\ \E url \in GoogleUrls :
         LET r == display_conversion_results(url)
         IN /\ input' = [kind |-> "arguments", url |-> PyText(url)]
            /\ out' = r.out
            /\ log' = r.log
    /\ prog' = "converter"
    /\ tool' = "display_conversion_results"
    /\ pc' = "returned"
    /\ UNCHANGED ret

\* the result is handed back: mcp.run() waits for the next call, the
\* converter's caller goes on to the next link
ServeNext ==
    /\ pc = "returned"
    /\ pc' = "idle"
    /\ prog' = "none"
    /\ tool' = "none"
    /\ input' = NoInput
    /\ out' = <<>>
    /\ ret' = NoReturn
    /\ log' = <<>>

Next ==
    \/ HandRolledMain
    \/ AnalyzeDesign
    \/ AnalyzeCopywriting
    \/ AnalyzeLayoutAlignment
    \/ AnalyzeArchitecturalDesign
    \/ AnalyzePdfPresentation
    \/ AnalyzeWebsiteDesign
    \/ AnalyzeGoogleFileLink
    \/ DisplayConversionResults
    \/ ServeNext

Spec == Init /\ [][Next]_vars

(***************************************************************************)
(* Vocabulary of the properties                                            *)
(***************************************************************************)
HandRolledRan == pc = "exited" /\ prog = "hand_rolled"
ToolRan(names) == pc = "returned" /\ prog = "fastmcp" /\ tool \in names

ImageTools == {"analyze_design", "analyze_copywriting", "analyze_layout_alignment",
               "analyze_architectural_design"}

Count(op) == Cardinality({i \in DOMAIN log : log[i].op = op})

\* the input was parsed into a JSON object
IsRequestObject == input.kind = "json" /\ IsDict(input.payload)
Member(name) == name \in DOMAIN input.payload.d
\* the id member of the request, null when there is none or none was read
RequestId == IF IsRequestObject /\ Member("id") THEN input.payload.d.id ELSE None
RequestMethodIs(name) ==
    IsRequestObject /\ Member("method") /\ input.payload.d.method = PyStr(name)
KnownMethods == {"initialize", "tools/list", "tools/call"}

\* a tools/call whose params are a mapping (or absent, which defaults to one)
IsToolCall ==
    /\ RequestMethodIs("tools/call")
    /\ (Member("params") => IsDict(input.payload.d.params))
CallParamsDict == IF Member("params") THEN input.payload.d.params.d ELSE <<>>
CallsTool(name) ==
    IsToolCall /\ "name" \in DOMAIN CallParamsDict /\ CallParamsDict.name = PyStr(name)
HasArguments == "arguments" \in DOMAIN CallParamsDict
ArgumentsAreDict == HasArguments /\ IsDict(CallParamsDict.arguments)
ArgumentsDict == IF HasArguments THEN CallParamsDict.arguments.d ELSE <<>>

IsErrorResponse(r, code) ==
    /\ "error" \in DOMAIN r
    /\ "result" \notin DOMAIN r
    /\ r.error.code = code

\* the GET came back with a status that is not an HTTP error
Downloaded(i) ==
    /\ log[i].op = "GET"
    /\ log[i].outcome.t = "response"
    /\ log[i].outcome.status_code < 400

(***************************************************************************)
(* C1: every response that the hand-rolled main writes has exactly one of  *)
(* result and error, and its id is the id member of the request, or null   *)
(* when the request has no id or none could be read.                       *)
(***************************************************************************)
C1_OneOfResultErrorAndIdEchoed ==
    HandRolledRan =>
        \A i \in DOMAIN out :
            /\ ("result" \in DOMAIN out[i]) # ("error" \in DOMAIN out[i])
            /\ out[i].id = RequestId

C1_Witness ==
    /\ HandRolledRan
    /\ CallsTool("analyze_design")
    /\ Member("id") /\ input.payload.d.id = PyNum(7)
    /\ Len(out) = 1
    /\ "error" \in DOMAIN out[1]
    /\ Count("API") = 1

(***************************************************************************)
(* C2: every non-blank input that is not well-formed JSON gets one         *)
(* response with error code -32700 and id null, whatever method name the   *)
(* text contains, and no tool is executed.                                 *)
(***************************************************************************)
C2_MalformedGetsParseError ==
    (HandRolledRan /\ input.kind \in {"malformed", "undecodable"}) =>
        /\ Len(out) = 1
        /\ IsErrorResponse(out[1], 0 - 32700)
        /\ out[1].id = None
        /\ Count("GET") = 0 /\ Count("CONFIG") = 0 /\ Count("API") = 0

(***************************************************************************)
(* C3: a request object whose method is exactly "initialize" is answered   *)
(* with the request's id and a result holding protocolVersion              *)
(* "2024-11-05", capabilities and serverInfo (name, version "1.0.0"), and  *)
(* no error member, whatever its id and params.                            *)
(***************************************************************************)
C3_InitializeResult ==
    (HandRolledRan /\ RequestMethodIs("initialize")) =>
        /\ Len(out) = 1
        /\ out[1].id = RequestId
        /\ "error" \notin DOMAIN out[1]
        /\ "result" \in DOMAIN out[1]
        /\ out[1].result.protocolVersion = "2024-11-05"
        /\ "capabilities" \in DOMAIN out[1].result
        /\ "name" \in DOMAIN out[1].result.serverInfo
        /\ out[1].result.serverInfo.version = "1.0.0"

C3_Witness ==
    /\ HandRolledRan
    /\ RequestMethodIs("initialize")
    /\ Member("id") /\ input.payload.d.id = PyStr("a")
    /\ Member("params") /\ ~IsDict(input.payload.d.params)
    /\ Len(out) = 1 /\ "result" \in DOMAIN out[1]

(***************************************************************************)
(* C4: a request object whose method is anything other than exactly        *)
(* "initialize", "tools/list" or "tools/call" (a missing method and a name *)
(* differing only in case included) is answered with error -32601 and the  *)
(* request's id.                                                           *)
(***************************************************************************)
C4_UnknownMethodNotFound ==
    (HandRolledRan /\ IsRequestObject /\ \A m \in KnownMethods : ~RequestMethodIs(m)) =>
        /\ Len(out) = 1
        /\ IsErrorResponse(out[1], 0 - 32601)
        /\ out[1].id = RequestId

C4_Witness ==
    /\ HandRolledRan
    /\ RequestMethodIs("Initialize")
    /\ Member("id") /\ input.payload.d.id = PyNum(7)
    /\ Len(out) = 1 /\ "error" \in DOMAIN out[1]

(***************************************************************************)
(* C5: a tools/call whose params.name is not a registered tool (missing    *)
(* name included) is answered with error -32000 whose message names the    *)
(* unknown tool, the request id is echoed, and neither a download nor an   *)
(* analysis-API call is made, whatever the arguments are.                  *)
(***************************************************************************)
C5_UnknownToolError ==
    (HandRolledRan /\ IsToolCall /\ ~CallsTool("analyze_design")) =>
        /\ Len(out) = 1
        /\ IsErrorResponse(out[1], 0 - 32000)
        /\ out[1].error.message =
              <<"Bilinmeyen tool: ", Repr(DictGet(CallParamsDict, "name", None))>>
        /\ out[1].id = RequestId
        /\ Count("GET") = 0 /\ Count("API") = 0

C5_Witness ==
    /\ HandRolledRan
    /\ CallsTool("Analyze_Design")
    /\ ArgumentsAreDict
    /\ "url" \in DOMAIN ArgumentsDict
    /\ ArgumentsDict.url = PyText(<<"https://", "x">>)
    /\ Len(out) = 1 /\ "error" \in DOMAIN out[1]

(***************************************************************************)
(* C6: a hand-rolled tools/call to analyze_design whose url argument is    *)
(* missing, empty or whitespace-only yields a validation error before any  *)
(* network call: the HTTP GET function is invoked zero times.              *)
(***************************************************************************)
UrlArgumentIsBlank ==
    \/ "url" \notin DOMAIN ArgumentsDict
    \/ /\ IsText(ArgumentsDict.url)
       /\ Strip(ArgumentsDict.url.s) = <<>>

C6_BlankUrlNeverFetched ==
    (/\ HandRolledRan
     /\ CallsTool("analyze_design")
     /\ (HasArguments => ArgumentsAreDict)
     /\ UrlArgumentIsBlank) =>
        /\ Len(out) = 1
        /\ "error" \in DOMAIN out[1]
        /\ Count("GET") = 0

(***************************************************************************)
(* C7: in both variants the URL that is validated and fetched is the input *)
(* without its surrounding whitespace and its leading '@' characters: it   *)
(* never begins with '@' or whitespace and never ends with whitespace, and *)
(* an input that is a http(s) URL once these are removed is validated as   *)
(* that URL.                                                               *)
(***************************************************************************)
\* the input without surrounding whitespace and leading '@' characters
Unwrapped(url) == LStrip(RStrip(url, Whitespace), Whitespace \cup {AT})

C7_FetchedUrlIsUnwrapped ==
    /\ (HandRolledRan \/ ToolRan(ImageTools \cup {"analyze_pdf_presentation"})) =>
          \A i \in DOMAIN log :
              log[i].op = "GET" =>
                  /\ ~StartsWith(log[i].url, AT)
                  /\ ~StartsWith(log[i].url, SP)
                  /\ ~EndsWith(log[i].url, SP)
    /\ (/\ ToolRan(ImageTools \cup {"analyze_pdf_presentation"})
        /\ IsText(input.url)
        /\ HasHttpScheme(Unwrapped(input.url.s))) =>
          /\ ret.text # ERR_SCHEME
          /\ ret.text # ERR_EMPTY

(***************************************************************************)
(* C8: in the FastMCP image tools a successful download whose declared     *)
(* content type does not start with image/ (a missing header included)     *)
(* returns the not-an-image error string and the analysis API is not       *)
(* invoked in that call.                                                   *)
(***************************************************************************)
C8_NonImageNeverAnalyzed ==
    ToolRan(ImageTools) =>
        \A i \in DOMAIN log :
            (/\ Downloaded(i)
             /\ (log[i].outcome.content_type = <<>>
                 \/ log[i].outcome.content_type[1] # "image/")) =>
                /\ ret.text = ERR_NOT_IMAGE
                /\ Count("API") = 0

C8_Witness ==
    /\ ToolRan({"analyze_layout_alignment"})
    /\ \E i \in DOMAIN log :
          /\ Downloaded(i)
          /\ log[i].outcome.content_type = <<"IMAGE/", "png">>
    /\ ret.text = ERR_NOT_IMAGE

(***************************************************************************)
(* C9: in the hand-rolled analyze_design a download that succeeds with     *)
(* HTTP 200 but whose declared media type is not an image fails with a     *)
(* content-type mismatch error, and the analysis API is not called.        *)
(***************************************************************************)
C9_HandRolledNonImageRejected ==
    HandRolledRan =>
        \A i \in DOMAIN log :
            (/\ log[i].op = "GET"
             /\ log[i].outcome.t = "response"
             /\ log[i].outcome.status_code = 200
             /\ ~StartsWith(Lower(log[i].outcome.content_type), "image/")) =>
                /\ Len(out) = 1
                /\ "error" \in DOMAIN out[1]
                /\ Count("API") = 0

(***************************************************************************)
(* C10: in analyze_pdf_presentation (the definition in effect) a           *)
(* successful download whose declared media type is not PDF yields the     *)
(* content-type mismatch error and no analysis-API call, whatever the text *)
(* of the URL is.                                                          *)
(***************************************************************************)
DeclaresPdf(ctype) == \E i \in 1..Len(ctype) : ctype[i] \in {"pdf", "PDF"}

DownloadTools == ImageTools \cup {"analyze_pdf_presentation"}

AttemptFailed(i) ==
    /\ log[i].op = "GET"
    /\ \/ log[i].outcome.t = "raise"
       \/ log[i].outcome.status_code # 200
       \/ log[i].outcome.content = <<>>

C11_PdfRetriesStrategies ==
    (/\ ToolRan({"analyze_pdf_presentation"})
     /\ Count("GET") >= 1
     /\ \A i \in DOMAIN log : log[i].op = "GET" => AttemptFailed(i)) =>
        /\ Count("GET") >= 2
        /\ Count("API") = 0

(***************************************************************************)
(* C12: in both variants, when the analysis-API credential cannot be       *)
(* resolved, a tool call with a valid URL ends with a descriptive in-band  *)
(* error, and neither the HTTP GET of the target URL nor the analysis-API  *)
(* call is performed.                                                      *)
(***************************************************************************)
CredentialMissing ==
    \E i \in DOMAIN log :
        \/ log[i].op = "CONFIG" /\ log[i].outcome # "key"
        \/ log[i].op = "GETENV" /\ log[i].outcome # "key"

C12_NoCredentialNoTraffic ==
    /\ (HandRolledRan /\ CredentialMissing) =>
          /\ Len(out) = 1
          /\ IsErrorResponse(out[1], 0 - 32000)
          /\ Count("GET") = 0
          /\ Count("API") = 0
    /\ (ToolRan(DownloadTools) /\ CredentialMissing) =>
          /\ ret.text = ERR_NO_KEY
          /\ Count("GET") = 0
          /\ Count("API") = 0

(***************************************************************************)
(* C13: the hand-rolled main writes exactly one response for every         *)
(* non-blank input, whatever fails while handling it, and nothing for a    *)
(* blank input.                                                            *)
(***************************************************************************)
C13_OneResponsePerInput ==
    HandRolledRan => Len(out) = (IF input.kind = "blank" THEN 0 ELSE 1)

C13_Witness ==
    /\ HandRolledRan
    /\ CallsTool("analyze_design")
    /\ HasArguments /\ ~ArgumentsAreDict
    /\ Len(out) = 1

(***************************************************************************)
(* C14: the code of every hand-rolled error response is -32700, -32601 or  *)
(* -32000; -32700 exactly when the input is not well-formed JSON, -32601   *)
(* exactly when it is a JSON object whose method is none of the three      *)
(* known ones, and -32000 for every other failure.                         *)
(***************************************************************************)
C14_ErrorCodeTaxonomy ==
    (HandRolledRan /\ Len(out) = 1) =>
        LET notJson == input.kind \in {"malformed", "undecodable"}
            unknownMethod == IsRequestObject /\ \A m \in KnownMethods : ~RequestMethodIs(m)
        IN /\ "error" \in DOMAIN out[1] =>
                 out[1].error.code \in {0 - 32700, 0 - 32601, 0 - 32000}
           /\ IsErrorResponse(out[1], 0 - 32700) <=> notJson
           /\ IsErrorResponse(out[1], 0 - 32601) <=> unknownMethod

(***************************************************************************)
(* C15: each FastMCP tool that downloads returns a validation error string *)
(* and performs no HTTP GET and no analysis-API call when url is empty or  *)
(* whitespace-only, or when it does not begin with http:// or https://     *)
(* after trimming and '@'-stripping, whether or not the credential is set. *)
(***************************************************************************)
C15_InvalidUrlNoTraffic ==
    (/\ ToolRan(DownloadTools)
     /\ IsText(input.url)
     /\ LET trimmed == Strip(input.url.s)
            stripped == LStrip(trimmed, {AT})
        IN \/ trimmed = <<>>
           \/ stripped = <<>>
           \/ stripped[1] \notin {"http://", "https://"}) =>
        /\ ret.text \in {ERR_EMPTY, ERR_SCHEME}
        /\ log = <<>>

C15_Witness ==
    /\ ToolRan({"analyze_pdf_presentation"})
    /\ input.url = PyText(<<AT, SP, "https://">>)
    /\ ret.text = ERR_SCHEME
    /\ log = <<>>

(***************************************************************************)
(* C16: in both variants, when the HTTP GET raises a transport-level       *)
(* exception or returns an HTTP error status the call fails with a         *)
(* network/download error (FastMCP: a string starting with the Network     *)
(* Error marker; hand-rolled: error -32000 carrying the download-failure   *)
(* message) and the analysis API is never called.                          *)
(***************************************************************************)
GetFailed(i) ==
    /\ log[i].op = "GET"
    /\ \/ log[i].outcome.t = "raise"
       \/ log[i].outcome.status_code >= 400

C16_DownloadFailureIsNetworkError ==
    /\ (HandRolledRan /\ \E i \in DOMAIN log : GetFailed(i)) =>
          /\ Len(out) = 1
          /\ IsErrorResponse(out[1], 0 - 32000)
          /\ out[1].error.message[1] = "Gorsel indirme hatasi: "
          /\ Count("API") = 0
    /\ (ToolRan(DownloadTools) /\ \E i \in DOMAIN log : GetFailed(i)) =>
          /\ ret.text[1] = "**Network Error:** "
          /\ Count("API") = 0

C16_Witness ==
    /\ ToolRan({"analyze_copywriting"})
    /\ \E i \in DOMAIN log :
          /\ GetFailed(i)
          /\ log[i].outcome.t = "response"
          /\ log[i].outcome.status_code = 404
    /\ ret.text[1] = "**Network Error:** "

(***************************************************************************)
(* C17: every invocation that downloads a payload and then calls the       *)
(* analysis API (hand-rolled analyze_design, every FastMCP image or PDF    *)
(* tool) sends one analysis request that carries, inline, the base64       *)
(* encoding of exactly the bytes downloaded in that invocation.            *)
(***************************************************************************)
C17_AnalysisCarriesDownloadedBytes ==
    (HandRolledRan \/ ToolRan(DownloadTools)) =>
        \A j \in DOMAIN log :
            log[j].op = "API" =>
                \E i \in 1..(j - 1) :
                    /\ log[i].op = "GET"
                    /\ log[i].outcome.t = "response"
                    /\ log[j].payload.kind = "image"
                    /\ log[j].payload.data = B64Encode(log[i].outcome.content)

(***************************************************************************)
(* C18: the hand-rolled tools/list result is the same static array for     *)
(* every request, each descriptor has name, description and inputSchema,   *)
(* and the names it lists are exactly the names tools/call accepts as      *)
(* registered.                                                             *)
(***************************************************************************)
ListedNames == {"analyze_design"}

C18_ListedToolsAreTheRegisteredOnes ==
    /\ (HandRolledRan /\ RequestMethodIs("tools/list")) =>
          /\ Len(out) = 1
          /\ "result" \in DOMAIN out[1]
          /\ Len(out[1].result.tools) = Cardinality(ListedNames)
          /\ \A i \in DOMAIN out[1].result.tools :
                /\ DOMAIN out[1].result.tools[i] = {"name", "description", "inputSchema"}
                /\ out[1].result.tools[i].name \in ListedNames
    /\ (HandRolledRan /\ IsToolCall /\ "name" \in DOMAIN CallParamsDict
        /\ CallParamsDict.name.t = "str") =>
          (CallParamsDict.name.v \in ListedNames
             <=> ~(/\ "error" \in DOMAIN out[1]
                   /\ out[1].error.message[1] = "Bilinmeyen tool: "))

C18_Witness ==
    /\ HandRolledRan
    /\ RequestMethodIs("tools/list")
    /\ Member("id") /\ input.payload.d.id = PyNum(7)
    /\ Len(out) = 1
    /\ out[1].result.tools[1].name = "analyze_design"


(***************************************************************************)
(* C19: whichever copy of convert_google_links_to_direct_urls ran, its     *)
(* result names a file type whose link text occurs in the URL and lists    *)
(* exactly the formats advertised for that type, in order: Slides pdf then *)
(* pptx, Drive direct_download only, Docs pdf then docx, Sheets pdf then   *)
(* xlsx; a URL in which no link text occurs gives file_type "unknown" with *)
(* an error and no analysis URLs.                                          *)
(***************************************************************************)
Conversions == {log[i].results : i \in {j \in DOMAIN log : log[j].op = "CONVERT"}}

\* the text https<path> followed by an identifier character occurs in url
Occurs(path, url) ==
    \E i \in 1..(Len(url) - 2) :
        url[i] = "https" /\ url[i + 1] = path /\ url[i + 2] \in IdTokens

LinkTypesIn(url) ==
    {ft \in {"google_slides", "google_drive", "google_docs", "google_sheets"} :
        Occurs(CASE ft = "google_slides" -> SLIDES_PATH
                 [] ft = "google_drive" -> DRIVE_PATH
                 [] ft = "google_docs" -> DOCS_PATH
                 [] OTHER -> SHEETS_PATH, url)}

AdvertisedFormats(file_type) ==
    CASE file_type = "google_slides" -> <<"pdf", "pptx">>
      [] file_type = "google_drive" -> <<"direct_download">>
      [] file_type = "google_docs" -> <<"pdf", "docx">>
      [] file_type = "google_sheets" -> <<"pdf", "xlsx">>
      [] OTHER -> <<>>

FormatsOf(results) ==
    [i \in DOMAIN results.analysis_urls |-> results.analysis_urls[i].format]

C19_ConverterGivesAdvertisedFormats ==
    \A r \in Conversions :
        /\ IF LinkTypesIn(r.original_url) = {} THEN r.file_type = "unknown"
           ELSE r.file_type \in LinkTypesIn(r.original_url)
        /\ FormatsOf(r) = AdvertisedFormats(r.file_type)
        /\ r.file_type = "unknown" => "error" \in DOMAIN r /\ r.analysis_urls = <<>>

\* the FastMCP tool converted a Google Docs link
C19_Witness ==
    /\ ToolRan({"analyze_google_file_link"})
    /\ \E r \in Conversions : r.file_type = "google_docs" /\ Len(r.analysis_urls) = 2


(***************************************************************************)
(* C20: an invocation that downloads (the hand-rolled server, every        *)
(* FastMCP tool that fetches its URL) makes at most one HTTP GET and at    *)
(* most one analysis-API request; the analysis request comes only after a  *)
(* GET that completed successfully; an analysis request that failed is not *)
(* repeated and the error handed back contains the failure's message.      *)
(***************************************************************************)
FetchingTools == DownloadTools \cup {"analyze_google_file_link"}

ApiFailed == \E j \in DOMAIN log : log[j].op = "API" /\ log[j].outcome = "raise"

Contains(parts, part) == \E i \in DOMAIN parts : parts[i] = part

C20_OneGetThenOneApiRequest ==
    (HandRolledRan \/ ToolRan(FetchingTools)) =>
        /\ Count("GET") <= 1
        /\ Count("API") <= 1
        /\ \A j \in DOMAIN log :
               log[j].op = "API" => \E i \in 1..(j - 1) : Downloaded(i)
        /\ (HandRolledRan /\ ApiFailed) =>
               /\ Len(out) = 1
               /\ IsErrorResponse(out[1], SERVER_ERROR)
               /\ Contains(out[1].error.message, "APIError")
        /\ (ToolRan(FetchingTools) /\ ApiFailed) =>
               /\ ret.text[1] = GENERIC_ERROR \/ tool = "analyze_google_file_link"
               /\ Contains(ret.text, "APIError")

\* the layout tool downloaded its image and the analysis request failed
C20_Witness ==
    /\ ToolRan({"analyze_layout_alignment"})
    /\ Count("GET") = 1
    /\ Count("API") = 1
    /\ ApiFailed
    /\ Contains(ret.text, "APIError")


(***************************************************************************)
(* C21: in the hand-rolled server a request whose method is initialize,    *)
(* tools/list or not a known method causes no download, no read of the     *)
(* key configuration and no analysis-API call; when any of the three       *)
(* happened, the request was a tools/call naming the registered tool.      *)
(***************************************************************************)
SideEffects == Count("GET") + Count("CONFIG") + Count("API")

C21_OnlyRegisteredToolCallHasEffects ==
    HandRolledRan =>
        /\ (IsRequestObject /\ ~RequestMethodIs("tools/call")) => SideEffects = 0
        /\ SideEffects > 0 => CallsTool("analyze_design")

\* tools/list came with params that name the registered tool and a URL
C21_Witness ==
    /\ HandRolledRan
    /\ RequestMethodIs("tools/list")
    /\ Member("params")
    /\ input.payload.d.params =
          PyDict([name |-> PyStr("analyze_design"),
                  arguments |-> PyDict([url |-> PyText(<<"https://", "x">>)])])
    /\ Len(out) = 1 /\ "result" \in DOMAIN out[1]
    /\ SideEffects = 0


(***************************************************************************)
(* C22: the hand-rolled server answers a request that has no params member *)
(* exactly as it answers the same request with params equal to the empty   *)
(* mapping, and with the same effects: initialize and tools/list succeed,  *)
(* tools/call fails as a tool error with code -32000.                      *)
(***************************************************************************)
WithoutParams == IsRequestObject /\ ~Member("params")

\* the request read, with an empty mapping as its params member
WithEmptyParams ==
    [kind |-> "json", payload |-> PyDict(input.payload.d @@ [params |-> PyDict(<<>>)])]

C22_MissingParamsIsEmptyMapping ==
    (HandRolledRan /\ WithoutParams) =>
        /\ \A e \in EnvsConsulting(Ops(main(WithEmptyParams, AllGood).log)) :
               main(WithEmptyParams, e) = [out |-> out, log |-> log]
        /\ (RequestMethodIs("initialize") \/ RequestMethodIs("tools/list")) =>
               Len(out) = 1 /\ "result" \in DOMAIN out[1] /\ "error" \notin DOMAIN out[1]
        /\ RequestMethodIs("tools/call") =>
               /\ Len(out) = 1
               /\ IsErrorResponse(out[1], SERVER_ERROR)
               /\ out[1].error.message = <<"Bilinmeyen tool: ", "None">>

C22_Witness ==
    /\ HandRolledRan
    /\ WithoutParams
    /\ RequestMethodIs("tools/call")
    /\ Len(out) = 1
    /\ IsErrorResponse(out[1], SERVER_ERROR)


(***************************************************************************)
(* C23: every FastMCP tool hands back a string, whatever its arguments     *)
(* (a null or non-string url included) and whatever the download and the   *)
(* analysis call did; no exception leaves the tool, and a call that did    *)
(* not end with an answer of the analysis API hands back an error text.    *)
(***************************************************************************)
FastMCPTools ==
    FetchingTools \cup {"analyze_website_design"}

\* the beginnings of the error texts
ErrorMarkers ==
    {ERR_EMPTY[1], ERR_SCHEME[1], ERR_NO_KEY[1], ERR_NOT_IMAGE[1], ERR_NOT_PDF[1],
     NETWORK_ERROR, GENERIC_ERROR, "Error: ", "Analysis failed: ",
     "Could not generate analysis URL"}

Answered == \E j \in DOMAIN log : log[j].op = "API" /\ log[j].outcome = "answer"

C23_ToolsAlwaysReturnAString ==
    ToolRan(FastMCPTools) =>
        /\ ret.t = "str"
        /\ ~Answered => \E i \in DOMAIN ret.text : ret.text[i] \in ErrorMarkers

\* the Google link tool was called with a null url
C23_Witness ==
    /\ ToolRan({"analyze_google_file_link"})
    /\ input.url = None
    /\ ret.t = "str"
    /\ ret.text[1] = "Analysis failed: "


(***************************************************************************)
(* C24: for a recognised link analyze_google_file_link calls exactly one   *)
(* analyzer, on the pdf export URL when the conversion lists one and on    *)
(* the first analysis URL otherwise.  Slides with "presentation" go to     *)
(* analyze_pdf_presentation; "design", "copywriting" and "layout" go to    *)
(* analyze_design, analyze_copywriting and analyze_layout_alignment; every *)
(* other combination goes to analyze_pdf_presentation for Slides and to    *)
(* analyze_design for the other file types.  The text handed back is the   *)
(* conversion summary followed by the result of that analyzer.             *)
(***************************************************************************)
GoogleToolRan == ToolRan({"analyze_google_file_link"})

\* the link was recognised: the conversion recorded first has no error
Recognised ==
    /\ log # <<>>
    /\ log[1].op = "CONVERT"
    /\ "error" \notin DOMAIN log[1].results

Calls == {i \in DOMAIN log : log[i].op = "CALL"}

ExpectedAnalyzer(file_type, analysis_type) ==
    CASE file_type = "google_slides" /\ analysis_type = "presentation" ->
            "analyze_pdf_presentation"
      [] file_type # "google_slides" /\ analysis_type = "presentation" -> "analyze_design"
      [] analysis_type = "design" -> "analyze_design"
      [] analysis_type = "copywriting" -> "analyze_copywriting"
      [] analysis_type = "layout" -> "analyze_layout_alignment"
      [] OTHER -> IF file_type = "google_slides" THEN "analyze_pdf_presentation"
                  ELSE "analyze_design"

ExpectedUrl(analysis_urls) ==
    IF \E i \in DOMAIN analysis_urls : analysis_urls[i].format = "pdf"
    THEN analysis_urls[CHOOSE i \in DOMAIN analysis_urls :
                          /\ analysis_urls[i].format = "pdf"
                          /\ \A j \in 1..(i - 1) : analysis_urls[j].format # "pdf"].url
    ELSE analysis_urls[1].url

C24_GoogleLinkRoutedToOneAnalyzer ==
    (GoogleToolRan /\ Recognised) =>
        LET results == log[1].results
        IN /\ Calls = {2}
           /\ log[2].name = ExpectedAnalyzer(results.file_type, input.analysis_type)
           /\ log[2].url = ExpectedUrl(results.analysis_urls)
           /\ \E e \in EnvsConsulting(Ops(log)) :
                 LET r == Analyzer(log[2].name, PyText(log[2].url), e)
                 IN /\ r.log = SubSeq(log, 3, Len(log))
                    /\ ret.text = ConversionInfo(results.original_url, results, log[2].url)
                                    \o r.text

\* a Drive link, which has no pdf export, with an analysis type of its own
C24_Witness ==
    /\ GoogleToolRan
    /\ Recognised
    /\ log[1].results.file_type = "google_drive"
    /\ input.analysis_type = "Presentation"
    /\ log[2].name = "analyze_design"
    /\ log[2].url[2] = "drive.google.com/u/0/uc?id="
    /\ Answered


(***************************************************************************)
(* C25: analyze_google_file_link called with a URL in which none of the    *)
(* four Google link patterns occurs (the empty string included) hands back *)
(* the "URL format not recognized" error and makes no HTTP GET, no lookup  *)
(* of the API key and no analysis-API call.                                *)
(***************************************************************************)
UnrecognisedUrl == IsText(input.url) /\ LinkTypesIn(input.url.s) = {}

C25_UnrecognisedLinkNoTraffic ==
    (GoogleToolRan /\ UnrecognisedUrl) =>
        /\ ret.t = "str"
        /\ ret.text = <<"Error: ", "URL format not recognized as a Google file sharing link">>
        /\ Count("GET") = 0 /\ Count("GETENV") = 0 /\ Count("CONFIG") = 0
        /\ Count("API") = 0 /\ Calls = {}

\* a Slides link under the http scheme
C25_Witness ==
    /\ GoogleToolRan
    /\ input.url = PyText(<<"http", SLIDES_PATH, "a">>)
    /\ ret.text[1] = "Error: "
    /\ Len(log) = 1


(***************************************************************************)
(* C26: whatever string the converter is given, its result keeps that      *)
(* string as original_url; the error key is present exactly when file_type *)
(* is "unknown", exactly when analysis_urls is empty; otherwise file_id is *)
(* what the first pattern that matches, in the order slides, drive, docs,  *)
(* sheets, captured, and every analysis URL begins with https:// and       *)
(* contains that file_id.  The "Could not generate analysis URL" answer of *)
(* analyze_google_file_link is therefore never given.                      *)
(***************************************************************************)
ConverterRan == pc = "returned" /\ prog = "converter"

\* the string the converter was called with
ConverterInput ==
    IF ConverterRan THEN input.url.s ELSE LStrip(Strip(input.url.s), {AT})

PatternOrder == <<SLIDES_PATH, DRIVE_PATH, DOCS_PATH, SHEETS_PATH>>

FirstMatching(url) ==
    PatternOrder[MinOf({n \in 1..4 : Occurs(PatternOrder[n], url)})]

\* the identifier characters that follow the leftmost occurrence of the pattern
Captured(path, url) ==
    LET i == MinOf({n \in 1..(Len(url) - 2) :
                       url[n] = "https" /\ url[n + 1] = path /\ url[n + 2] \in IdTokens})
        stop == MinOf({n \in (i + 2)..(Len(url) + 1) :
                          n = Len(url) + 1 \/ url[n] \notin IdTokens})
    IN SubSeq(url, i + 2, stop - 1)

ContainsSeq(s, part) ==
    \E k \in 0..(Len(s) - Len(part)) : SubSeq(s, k + 1, k + Len(part)) = part

C26_ConversionResultIsConsistent ==
    /\ (ConverterRan \/ GoogleToolRan) =>
          \A r \in Conversions :
              /\ r.original_url = ConverterInput
              /\ ("error" \in DOMAIN r) <=> (r.file_type = "unknown")
              /\ (r.file_type = "unknown") <=> (r.analysis_urls = <<>>)
              /\ r.file_type # "unknown" =>
                    /\ r.file_id = Captured(FirstMatching(r.original_url), r.original_url)
                    /\ \A i \in DOMAIN r.analysis_urls :
                          /\ r.analysis_urls[i].url[1] = "https://"
                          /\ ContainsSeq(r.analysis_urls[i].url, r.file_id)
    /\ GoogleToolRan => ret # [t |-> "str", text |-> <<"Could not generate analysis URL">>]

\* a Docs pattern whose identifier is the start of a whole Drive link: both
\* patterns match and the Drive one, earlier in the order, is taken
C26_Witness ==
    /\ ConverterRan
    /\ input.url = PyText(<<"https", DOCS_PATH, "https", DRIVE_PATH, "a">>)
    /\ \E r \in Conversions : r.file_type = "google_drive" /\ r.file_id = <<"a">>


(***************************************************************************)
(* C27: the copy of convert_google_links_to_direct_urls in                 *)
(* google_link_converter.py and the copy in mcp_graphic_design.py give     *)
(* equal results for every URL either of them is called with.              *)
(***************************************************************************)
C27_ConverterCopiesAgree ==
    (ConverterRan \/ (GoogleToolRan /\ IsText(input.url))) =>
        /\ converter_convert_google_links_to_direct_urls(ConverterInput)
             = convert_google_links_to_direct_urls(ConverterInput)
        /\ Conversions = {convert_google_links_to_direct_urls(ConverterInput)}

\* a Slides pattern whose identifier is the start of a whole Drive link
C27_Witness ==
    /\ ConverterRan
    /\ input.url = PyText(<<"https", SLIDES_PATH, "https", DRIVE_PATH, "a">>)
    /\ \E r \in Conversions : r.file_type = "google_slides" /\ r.file_id = <<"https">>


(***************************************************************************)
(* C28: analyze_website_design never makes an HTTP GET.  Given a url that  *)
(* is not blank, it does not reject one without an http:// or https://     *)
(* prefix but puts https:// in front of it, leaves a leading '@' in place, *)
(* and then makes exactly one analysis-API call, naming that URL, when the *)
(* API key is set and none when it is not.                                 *)
(***************************************************************************)
WebsiteToolRan == ToolRan({"analyze_website_design"})

NonBlankUrl == IsText(input.url) /\ \E i \in DOMAIN input.url.s : input.url.s[i] # SP

\* the url without its outer blanks
Trimmed ==
    LET s == input.url.s
        inner == {i \in DOMAIN s : s[i] # SP}
    IN SubSeq(s, MinOf(inner), MaxOf(inner))

ExpectedSite ==
    IF Trimmed[1] \in {"http://", "https://"} THEN Trimmed ELSE <<"https://">> \o Trimmed

KeyWasSet == \E i \in DOMAIN log : log[i].op = "GETENV" /\ log[i].outcome = "key"

====
